---------------------------- MODULE Spec2Model ----------------------------
(***************************************************************************)
(* Model of the douyinLive session engine (src/douyin.go): the Start2      *)
(* read loop with its reconnect cycle, Close() running in other            *)
(* goroutines, the ACK sub-protocol, and the event handler registry.       *)
(*                                                                         *)
(* Every shared-memory access of the Go code (dl.conn, dl.isLiving,        *)
(* dl.manualClose, dl.eventHandlers and its backing array) is one step, so *)
(* that the interleavings of the goroutines are the interleavings of the   *)
(* steps.  A nil dereference is a panic: the deferred cleanup runs and the *)
(* process dies.                                                           *)
(***************************************************************************)
EXTENDS Integers, Sequences, FiniteSets, TLC

\* ------------------------------------------------------------- bounds
\* Connections the dialer may hand out in one run (initial dial + reconnects).
MaxConns == 2
\* Messages carried by one Response.
MaxMsgs == 2
\* Subscribe calls in one run (ids are 1..MaxSubs).
MaxSubs == 2
\* Unsubscribe calls in one run.
MaxUnsubs == 2
\* Length of a frame's payload, in bytes (1..MaxPayload).
MaxPayload == 2

\* ------------------------------------------------- program constants
defaultMaxRetries == 5
\* gorilla/websocket close codes used by the code
CloseNormalClosure == 1000
CloseGoingAway == 1001
CloseNoStatusReceived == 1005
CloseAbnormalClosure == 1006
CloseInvalidFramePayloadData == 1007
ClosePolicyViolation == 1008
CloseServiceRestart == 1012
CloseTryAgainLater == 1013
\* retry-go's default Config.delay, in milliseconds
retryDelay == 100

\* --------------------------------------------------------- processes
Closers == {"k1", "k2"}
Callers == {"u1", "u2"}

\* ------------------------------------------------------------ inputs
\* An error value: a *websocket.CloseError with a code, or any other error
\* (kind "net"); wrapped is TRUE once retry.Unrecoverable has wrapped it.
NoErr == [kind |-> "none", code |-> 0, wrapped |-> FALSE]
NetErr == [kind |-> "net", code |-> 0, wrapped |-> FALSE]
CloseErr(c) == [kind |-> "close", code |-> c, wrapped |-> FALSE]

\* Errors a read can return while the peer or the network ends the stream.
ReadErrs ==
    {NetErr} \cup {CloseErr(c) : c \in {CloseNormalClosure, CloseAbnormalClosure,
                                        CloseTryAgainLater, ClosePolicyViolation}}
\* Errors a dial can return.
DialErrs ==
    {NetErr} \cup {CloseErr(c) : c \in {CloseAbnormalClosure, ClosePolicyViolation,
                                        CloseInvalidFramePayloadData}}

\* A Webcast_Im_Message: method tag and payload; the payload is what
\* proto.Unmarshal into a ControlMessage makes of it.
Msg(m, ok, st) == [method |-> m, pbOk |-> ok, status |-> st]
Messages ==
    { Msg("WebcastChatMessage", TRUE, 3),
      Msg("WebcastControlMessage", TRUE, 3),
      Msg("WebcastControlMessage", TRUE, 1),
      Msg("WebcastControlMessage", FALSE, 0) }

RECURSIVE SeqsUpTo(_, _)
SeqsUpTo(S, k) ==
    IF k = 0 THEN {<<>>}
    ELSE LET shorter == SeqsUpTo(S, k - 1)
         IN  shorter \cup {Append(s, x) : s \in {t \in shorter : Len(t) = k - 1}, x \in S}

\* (logID, internalExt) of the frames the peer sends
Tokens == {<<1, "X">>, <<2, "Y">>}

\* The payload bytes of a PushFrame: gzOk says gzip can decompress them, pbOk
\* says the decompressed bytes parse as a Response with the given fields.
Payload(gz, pb, ack, ext, ms) ==
    [gzOk |-> gz, pbOk |-> pb, needAck |-> ack, internalExt |-> ext, messages |-> ms]
Responses(e) ==
    { Payload(TRUE, TRUE, a, e, ms) : a \in BOOLEAN, ms \in SeqsUpTo(Messages, MaxMsgs) }

\* What ReadMessage returns: messageType, and data as proto.Unmarshal sees it
\* (wire "empty": len(data) = 0; "malformed": not a PushFrame).
Frame(mt, w, id, pt, gz, p) ==
    [messageType |-> mt, wire |-> w, logID |-> id, payloadType |-> pt,
     gzip |-> gz, payload |-> p]
NoPayload == Payload(FALSE, FALSE, FALSE, "", <<>>)
NoFrame == Frame("none", "empty", 0, "", FALSE, NoPayload)
Frames ==
    { Frame("text", "ok", 1, "msg", TRUE, Payload(TRUE, TRUE, TRUE, "X", <<>>)),
      Frame("binary", "empty", 0, "", FALSE, NoPayload),
      Frame("binary", "malformed", 0, "", FALSE, NoPayload),
      Frame("binary", "ok", 1, "msg", FALSE, Payload(TRUE, TRUE, TRUE, "X", <<>>)),
      Frame("binary", "ok", 1, "hb", TRUE, Payload(TRUE, TRUE, TRUE, "X", <<>>)) }
    \cup { Frame("binary", "ok", 1, "msg", TRUE, p) :
               p \in {Payload(FALSE, FALSE, FALSE, "", <<>>),
                       Payload(TRUE, FALSE, FALSE, "", <<>>)} }
    \cup UNION { { Frame("binary", "ok", t[1], "msg", TRUE, p) : p \in Responses(t[2]) } :
                   t \in Tokens }

\* -------------------------------------------------------------- state
VARIABLES
    \* DouyinLive fields
    conn,           \* dl.conn: 0 is nil, else a connection id
    isLiving,       \* dl.isLiving
    manualClose,    \* dl.manualClose
    mu,             \* dl.mu: "free" or the Closer holding it
    eventHandlers,  \* dl.eventHandlers: slice header [ptr, len, cap]
    heap,           \* backing arrays of EventHandler ids, by array id
    \* the transport
    connState,      \* per connection: "none" (not dialed), "open", "closed"
    closes,         \* per connection: number of Close() calls made on it
    \* the goroutine running Start2
    rpc,            \* its position
    rconn,          \* the *Conn a blocked ReadMessage was called on
    err,            \* the error of the last failed read
    attempt,        \* retry.Do's n
    derr,           \* the error of the last failed dial
    newconn,        \* a dialed connection not yet stored in dl.conn
    dials,          \* dials made in the current reconnect cycle
    delays,         \* delays slept in the current reconnect cycle (ms)
    frame,          \* pushFrame while it is processed
    msgs,           \* response.Messages not yet handled
    sent,           \* ACK frames emitted for the current frame
    pool,           \* dl.bufferPool: the logical lengths of the pooled buffers
    decoded,        \* what decoding made of the frame just read, "" if nothing
    exit,           \* how Start2 left its body: "", "return", "panic"
    cleanups,       \* runs of cleanup()
    crashSite,      \* where the first panic happened, "none" if nowhere
    ended,          \* a control message with status 3 has been handled
    \* emitEvent's range loop
    it,             \* [ptr, len, idx] of the range in progress
    calls,          \* handler ids invoked for the current message
    stable,         \* ids registered since the dispatch began and not touched
    \* goroutines calling Close
    cpc,            \* per Closer: position in Close()
    cconn,          \* per Closer: the captured conn
    gpc,            \* per Closer: position of the closing goroutine
    \* goroutines calling Subscribe / Unsubscribe
    upc,            \* per Caller: position
    uarg,           \* per Caller: id being subscribed / unsubscribed
    uhdr,           \* per Caller: the slice header it loaded
    uidx,           \* per Caller: index found by Unsubscribe
    nextId,         \* ids handed out by GenerateUniqueID so far
    unsubs,         \* Unsubscribe calls made so far
    expected        \* ids whose Subscribe took effect and no Unsubscribe since

shared == <<conn, isLiving, manualClose, mu>>
registry == <<eventHandlers, heap>>
transport == <<connState, closes>>
readerLocals ==
    <<rconn, err, attempt, derr, newconn, dials, delays, frame, msgs, sent, pool, decoded>>
readerExit == <<exit, cleanups, crashSite, ended>>
dispatch == <<it, calls, stable>>
closers == <<cpc, cconn, gpc>>
callers == <<upc, uarg, uhdr, uidx, nextId, unsubs, expected>>
vars == <<shared, registry, transport, rpc, readerLocals, readerExit, dispatch,
          closers, callers>>

Conns == 1..MaxConns
NilHeader == [ptr |-> 0, len |-> 0, cap |-> 0]
NoRange == [ptr |-> 0, len |-> 0, idx |-> 0]

\* NewDouyinLive2: isLiving is true, everything else has its zero value.
Init ==
    /\ conn = 0 /\ isLiving = TRUE /\ manualClose = FALSE /\ mu = "free"
    /\ eventHandlers = NilHeader /\ heap = <<>>
    /\ connState = [c \in Conns |-> "none"]
    /\ closes = [c \in Conns |-> 0]
    /\ rpc = "Start2"
    /\ rconn = 0 /\ err = NoErr /\ attempt = 0 /\ derr = NoErr /\ newconn = 0
    /\ dials = 0 /\ delays = <<>> /\ frame = NoFrame /\ msgs = <<>> /\ sent = <<>>
    /\ pool = <<>> /\ decoded = ""
    /\ exit = "" /\ cleanups = 0 /\ crashSite = "none" /\ ended = FALSE
    /\ it = NoRange /\ calls = <<>> /\ stable = {}
    /\ cpc = [k \in Closers |-> "idle"]
    /\ cconn = [k \in Closers |-> 0]
    /\ gpc = [k \in Closers |-> "none"]
    /\ upc = [u \in Callers |-> "idle"]
    /\ uarg = [u \in Callers |-> 0]
    /\ uhdr = [u \in Callers |-> NilHeader]
    /\ uidx = [u \in Callers |-> 0]
    /\ nextId = 0 /\ unsubs = 0 /\ expected = <<>>

\* An unrecovered panic ends the process: no goroutine takes another step.
Dead ==
    \/ rpc = "crashed"
    \/ \E k \in Closers : gpc[k] = "crashed"
    \/ \E u \in Callers : upc[u] = "crashed"


\* ------------------------------------------------- library functions
\* websocket.IsCloseError: a type assertion err.(*CloseError), which a wrapped
\* error does not pass, then membership of the code.
IsCloseError(e, codes) ==
    /\ e.kind = "close"
    /\ ~e.wrapped
    /\ e.code \in codes

\* Mutant of IsUnexpectedCloseError: the expected codes are not consulted.
IsUnexpectedCloseError_NoExpected(e, expectedCodes) ==
    /\ e.kind = "close"
    /\ ~e.wrapped

\* websocket.IsUnexpectedCloseError: a CloseError whose code is not expected.
IsUnexpectedCloseError(e, expectedCodes) ==
    /\ e.kind = "close"
    /\ ~e.wrapped
    /\ e.code \notin expectedCodes

\* retry.Unrecoverable
Unrecoverable(e) == [e EXCEPT !.wrapped = TRUE]

RECURSIVE Pow2(_)
Pow2(k) == IF k = 0 THEN 1 ELSE 2 * Pow2(k - 1)

\* Mutant of BackOffDelay: a fixed delay (retry.FixedDelay).
BackOffDelay_Fixed(k) == retryDelay

\* retry.BackOffDelay: config.delay * (1 << n)
BackOffDelay(k) == retryDelay * Pow2(k)

\* The connection id the dialer hands out next, 0 when the bound is reached.
FreshConn ==
    IF \E c \in Conns : connState[c] = "none"
    THEN CHOOSE c \in Conns : connState[c] = "none" /\ \A d \in Conns : d < c => connState[d] # "none"
    ELSE 0

\* net.Conn.Close through websocket.Conn.Close
HardClose(c) ==
    /\ connState' = [connState EXCEPT ![c] = "closed"]
    /\ closes' = [closes EXCEPT ![c] = @ + 1]

\* A panic in the goroutine of Start2: the deferred cleanup runs next.
Panic(site) ==
    /\ crashSite' = IF crashSite = "none" THEN site ELSE crashSite
    /\ exit' = "panic"
    /\ rpc' = "cleanup"

\* A return from Start2's body: the deferred cleanup runs next.
Return ==
    /\ exit' = "return"
    /\ rpc' = "cleanup"
    /\ crashSite' = crashSite

\* ------------------------------------------------------------ Start2
Start2_initialize ==
    /\ ~Dead /\ rpc = "Start2"
    /\ \E ok \in BOOLEAN :
         IF ok THEN rpc' = "startWebSocket" /\ UNCHANGED <<exit, crashSite>>
         ELSE Return
    /\ UNCHANGED <<shared, registry, transport, readerLocals, cleanups, ended,
                   dispatch, closers, callers>>

\* dialer.Dial and the use of resp on its error path
startWebSocket_Dial ==
    /\ ~Dead /\ rpc = "startWebSocket"
    /\ \E outcome \in {"ok", "badHandshake", "noResponse"} :
         CASE outcome = "ok" ->
                /\ FreshConn # 0
                /\ newconn' = FreshConn
                /\ connState' = [connState EXCEPT ![FreshConn] = "open"]
                /\ rpc' = "startWebSocket_store"
                /\ UNCHANGED <<exit, crashSite>>
           [] outcome = "badHandshake" ->
                /\ Return
                /\ UNCHANGED <<newconn, connState>>
           [] outcome = "noResponse" ->
                /\ Panic("startWebSocket")
                /\ UNCHANGED <<newconn, connState>>
    /\ UNCHANGED <<shared, registry, closes, rconn, err, attempt, derr, dials, delays,
                   frame, pool, decoded, msgs, sent, cleanups, ended, dispatch, closers, callers>>

startWebSocket_Store ==
    /\ ~Dead /\ rpc = "startWebSocket_store"
    /\ conn' = newconn
    /\ newconn' = 0
    /\ rpc' = "processMessages"
    /\ UNCHANGED <<isLiving, manualClose, mu, registry, transport, rconn, err, attempt,
                   derr, dials, delays, frame, pool, decoded, msgs, sent, readerExit, dispatch,
                   closers, callers>>

\* --------------------------------------------------- processMessages
\* for dl.isLiving
processMessages_Loop ==
    /\ ~Dead /\ rpc = "processMessages"
    /\ IF isLiving THEN rpc' = "read" /\ UNCHANGED <<exit, crashSite>>
       ELSE Return
    /\ decoded' = ""
    /\ UNCHANGED <<shared, registry, transport, rconn, err, attempt, derr, newconn,
                   dials, delays, frame, msgs, sent, pool, cleanups, ended, dispatch,
                   closers, callers>>

\* dl.conn.ReadMessage(): the load of dl.conn and the call
processMessages_Read ==
    /\ ~Dead /\ rpc = "read"
    /\ IF conn = 0 THEN Panic("read") /\ rconn' = rconn
       ELSE rconn' = conn /\ rpc' = "reading" /\ UNCHANGED <<exit, crashSite>>
    /\ UNCHANGED <<shared, registry, transport, err, attempt, derr, newconn, dials,
                   delays, frame, pool, decoded, msgs, sent, cleanups, ended, dispatch, closers,
                   callers>>

\* The checks of the frame after the read, up to the call of handleGzipMessage.
IsGzipMsg(f) ==
    /\ f.messageType = "binary"
    /\ f.wire = "ok"
    /\ f.payloadType = "msg"
    /\ f.gzip

\* Mutant of Reset: the buffer keeps its unread bytes.
Reset_Keep(b) == b

\* bytes.Buffer.Reset: the logical length of the buffer afterwards
Reset(b) == 0

\* decompressGzip(data) for len(data) = size, when the gzip reader has read
\* `read` bytes of the buffer by the time the function returns.  A buffer is
\* its logical length.  Get takes a pooled buffer, or a new, empty one when
\* the pool is empty or has dropped its items (fresh); the deferred function
\* resets the buffer and puts it back on every return.
decompressGzip(p, size, read, fresh) ==
    LET new == pool = <<>> \/ fresh
        buf == IF new THEN 0 ELSE Head(pool)
        rest == IF new THEN <<>> ELSE Tail(pool)
        written == buf + size
        unread == written - read
    IN  [ok |-> p.gzOk, pool |-> Append(rest, Reset(unread))]

\* Mutant of Decodes: the errors of decompressGzip and Unmarshal are ignored.
Decodes_Unchecked(p) == TRUE

\* handleGzipMessage: decompressGzip and proto.Unmarshal into a Response
Decodes(p) == p.gzOk /\ p.pbOk

\* What decoding makes of a frame: "" when the frame is not looked into,
\* the step that failed, or "ok".
DecodeResult(f) ==
    IF f.messageType # "binary" \/ f.wire = "empty" THEN ""
    ELSE IF f.wire = "malformed" THEN "PushFrame"
    ELSE IF ~(f.payloadType = "msg" /\ f.gzip) THEN ""
    ELSE IF ~f.payload.gzOk THEN "gzip"
    ELSE IF ~f.payload.pbOk THEN "Response"
    ELSE "ok"

\* if response.NeedAck
NeedsAck(p) == p.needAck

\* Where the loop body goes with a frame it read: back to the loop condition
\* when the frame is ignored or fails to decode, else to sendAck or to the
\* range over response.Messages.
AfterFrame(f) ==
    IF ~IsGzipMsg(f) \/ ~Decodes(f.payload) THEN "processMessages"
    ELSE IF NeedsAck(f.payload) THEN "sendAck"
    ELSE "handleSingleMessage"

\* ReadMessage returns a message; the body of the loop and handleGzipMessage
\* up to their next access to the session's shared fields.
processMessages_ReadFrame ==
    /\ ~Dead /\ rpc = "reading"
    /\ connState[rconn] = "open"
    /\ \E f \in Frames :
         /\ rpc' = AfterFrame(f)
         /\ frame' = IF AfterFrame(f) = "processMessages" THEN NoFrame ELSE f
         /\ msgs' = IF AfterFrame(f) = "processMessages" THEN <<>> ELSE f.payload.messages
         /\ decoded' = DecodeResult(f)
         /\ IF IsGzipMsg(f)
            THEN \E size \in 1..MaxPayload, fresh \in BOOLEAN :
                   \E read \in 0..size :
                     pool' = decompressGzip(f.payload, size, read, fresh).pool
            ELSE pool' = pool
    /\ sent' = <<>>
    /\ rconn' = 0
    /\ UNCHANGED <<shared, registry, transport, err, attempt, derr, newconn, dials,
                   delays, readerExit, dispatch, closers, callers>>

\* ReadMessage returns an error: the peer's or the network's while the
\* connection is open, "use of closed network connection" once it is closed.
processMessages_ReadError ==
    /\ ~Dead /\ rpc = "reading"
    /\ IF connState[rconn] = "open" THEN \E e \in ReadErrs : err' = e
       ELSE err' = NetErr
    /\ rconn' = 0
    /\ rpc' = "handleReadError"
    /\ UNCHANGED <<shared, registry, transport, attempt, derr, newconn, dials, delays,
                   frame, pool, decoded, msgs, sent, readerExit, dispatch, closers, callers>>

\* ----------------------------------------------------------- sendAck
\* Mutant of AckFrame: the LogID field is left at its zero value.
AckFrame_NoLogID(logID, internalExt) ==
    [logID |-> 0, payloadType |-> "ack", payload |-> internalExt]

AckFrame(logID, internalExt) ==
    [logID |-> logID, payloadType |-> "ack", payload |-> internalExt]

\* if dl.conn != nil
sendAck ==
    /\ ~Dead /\ rpc = "sendAck"
    /\ rpc' = IF conn # 0 THEN "sendAck_write" ELSE "handleSingleMessage"
    /\ UNCHANGED <<shared, registry, transport, readerLocals, readerExit, dispatch,
                   closers, callers>>

\* dl.conn.WriteMessage(websocket.BinaryMessage, data)
sendAck_Write ==
    /\ ~Dead /\ rpc = "sendAck_write"
    /\ IF conn = 0 THEN Panic("sendAck") /\ sent' = sent
       ELSE /\ sent' = IF connState[conn] = "open"
                       THEN Append(sent, AckFrame(frame.logID, frame.payload.internalExt))
                       ELSE sent
            /\ rpc' = "handleSingleMessage"
            /\ UNCHANGED <<exit, crashSite>>
    /\ UNCHANGED <<shared, registry, transport, rconn, err, attempt, derr, newconn,
                   dials, delays, frame, pool, decoded, msgs, cleanups, ended, dispatch, closers,
                   callers>>

\* ------------------------------------- handleSingleMessage, emitEvent
\* The slice dl.eventHandlers as a sequence of ids.
Handlers == [i \in 1..eventHandlers.len |-> heap[eventHandlers.ptr][i]]

\* Ids an Unsubscribe call in progress is removing.
BeingRemoved == {uarg[u] : u \in {v \in Callers : upc[v] \in {"unsub_shift", "unsub_store"}}}

\* for _, msg := range response.Messages; handleSingleMessage calls emitEvent,
\* whose range statement evaluates dl.eventHandlers once.
handleSingleMessage ==
    /\ ~Dead /\ rpc = "handleSingleMessage"
    /\ IF msgs = <<>>
       THEN /\ rpc' = "processMessages"
            /\ frame' = NoFrame
            /\ sent' = <<>>
            /\ decoded' = ""
            /\ UNCHANGED dispatch
       ELSE /\ rpc' = "emitEvent"
            /\ frame' = NoFrame
            /\ sent' = <<>>
            /\ decoded' = ""
            /\ it' = [ptr |-> eventHandlers.ptr, len |-> eventHandlers.len, idx |-> 0]
            /\ calls' = <<>>
            /\ stable' = {Handlers[i] : i \in 1..eventHandlers.len} \ BeingRemoved
    /\ UNCHANGED <<shared, registry, transport, rconn, err, attempt, derr, newconn,
                   dials, delays, msgs, pool, readerExit, closers, callers>>

\* One iteration of the range loop: the element is read from the backing
\* array when its turn comes, and its Handler is called; the callback returns
\* or panics, and nothing between it and Start2 recovers.
emitEvent ==
    /\ ~Dead /\ rpc = "emitEvent"
    /\ IF it.idx < it.len
       THEN LET id == heap[it.ptr][it.idx + 1]
            IN  IF id = 0
                THEN Panic("emitEvent") /\ UNCHANGED <<it, calls>>
                ELSE \E panics \in BOOLEAN :
                       IF panics
                       THEN Panic("Handler") /\ UNCHANGED <<it, calls>>
                       ELSE /\ calls' = Append(calls, id)
                            /\ it' = [it EXCEPT !.idx = @ + 1]
                            /\ UNCHANGED <<rpc, exit, crashSite>>
       ELSE /\ rpc' = "control"
            /\ UNCHANGED <<it, calls, exit, crashSite>>
    /\ UNCHANGED <<shared, registry, transport, readerLocals, cleanups, ended, stable,
                   closers, callers>>

\* msg.Method == "WebcastControlMessage", the payload parses, Status == 3
EndsStream(m) ==
    /\ m.method = "WebcastControlMessage"
    /\ m.pbOk
    /\ m.status = 3

\* Mutant of setLiveStatus: the assignment is lost.
setLiveStatus_Lost(status) == isLiving' = isLiving

\* setLiveStatus
setLiveStatus(status) == isLiving' = status

\* The rest of handleSingleMessage after emitEvent returned.
handleSingleMessage_Control ==
    /\ ~Dead /\ rpc = "control"
    /\ IF EndsStream(Head(msgs))
       THEN setLiveStatus(FALSE) /\ ended' = TRUE
       ELSE UNCHANGED <<isLiving, ended>>
    /\ msgs' = Tail(msgs)
    /\ it' = NoRange /\ calls' = <<>> /\ stable' = {}
    /\ rpc' = "handleSingleMessage"
    /\ UNCHANGED <<conn, manualClose, mu, registry, transport, rconn, err, attempt,
                   derr, newconn, dials, delays, frame, pool, decoded, sent, exit, cleanups,
                   crashSite, closers, callers>>

\* --------------------------------------------------- handleReadError
\* What handleReadError does with an error once manualClose was seen unset:
\* "stop" (return false), "sleep" (1013: sleep, then reconnect) or "reconnect".
Classify(e) ==
    IF ~IsUnexpectedCloseError(e, {CloseNormalClosure}) THEN "stop"
    ELSE IF e.kind = "close" /\ e.code = CloseTryAgainLater THEN "sleep"
    ELSE "reconnect"

handleReadError ==
    /\ ~Dead /\ rpc = "handleReadError"
    /\ IF manualClose \/ Classify(err) = "stop" THEN Return
       ELSE /\ rpc' = IF Classify(err) = "sleep" THEN "sleep" ELSE "reconnect"
            /\ UNCHANGED <<exit, crashSite>>
    /\ UNCHANGED <<shared, registry, transport, readerLocals, cleanups, ended,
                   dispatch, closers, callers>>

\* time.Sleep(5 * time.Second) before reconnect, for CloseTryAgainLater
handleReadError_Sleep ==
    /\ ~Dead /\ rpc = "sleep"
    /\ rpc' = "reconnect"
    /\ UNCHANGED <<shared, registry, transport, readerLocals, readerExit, dispatch,
                   closers, callers>>

\* --------------------------------------------------------- reconnect
\* if dl.manualClose
reconnect ==
    /\ ~Dead /\ rpc = "reconnect"
    /\ IF manualClose THEN Return
       ELSE rpc' = "reconnect_check" /\ UNCHANGED <<exit, crashSite>>
    /\ UNCHANGED <<shared, registry, transport, readerLocals, cleanups, ended,
                   dispatch, closers, callers>>

\* if dl.conn != nil; retry.Do starts with n = 0 when the block is skipped
reconnect_Check ==
    /\ ~Dead /\ rpc = "reconnect_check"
    /\ rpc' = IF conn # 0 THEN "reconnect_write" ELSE "retryable"
    /\ attempt' = 0 /\ dials' = 0 /\ delays' = <<>>
    /\ UNCHANGED <<shared, registry, transport, rconn, err, derr, newconn, frame, pool, decoded, msgs,
                   sent, readerExit, dispatch, closers, callers>>

\* dl.conn.WriteControl(websocket.CloseMessage, ...)
reconnect_WriteControl ==
    /\ ~Dead /\ rpc = "reconnect_write"
    /\ IF conn = 0 THEN Panic("reconnect")
       ELSE rpc' = "reconnect_close" /\ UNCHANGED <<exit, crashSite>>
    /\ UNCHANGED <<shared, registry, transport, readerLocals, cleanups, ended,
                   dispatch, closers, callers>>

\* dl.conn.Close()
reconnect_Close ==
    /\ ~Dead /\ rpc = "reconnect_close"
    /\ IF conn = 0 THEN Panic("reconnect") /\ UNCHANGED transport
       ELSE HardClose(conn) /\ rpc' = "reconnect_nil" /\ UNCHANGED <<exit, crashSite>>
    /\ UNCHANGED <<shared, registry, readerLocals, cleanups, ended, dispatch, closers,
                   callers>>

\* dl.conn = nil
reconnect_Nil ==
    /\ ~Dead /\ rpc = "reconnect_nil"
    /\ conn' = 0
    /\ rpc' = "retryable"
    /\ UNCHANGED <<isLiving, manualClose, mu, registry, transport, readerLocals,
                   readerExit, dispatch, closers, callers>>

\* The error retryable returns for a failed dial.
Retryable(e) ==
    IF IsCloseError(e, {CloseAbnormalClosure, CloseTryAgainLater, CloseServiceRestart,
                        CloseGoingAway, CloseNoStatusReceived, ClosePolicyViolation,
                        CloseInvalidFramePayloadData})
    THEN Unrecoverable(e)
    ELSE e

\* retryable: websocket.DefaultDialer.Dial
retryable_Dial ==
    /\ ~Dead /\ rpc = "retryable"
    /\ dials' = dials + 1
    /\ \E ok \in BOOLEAN :
         IF ok
         THEN /\ FreshConn # 0
              /\ newconn' = FreshConn
              /\ connState' = [connState EXCEPT ![FreshConn] = "open"]
              /\ rpc' = "retryable_store"
              /\ derr' = derr
         ELSE /\ \E e \in DialErrs : derr' = Retryable(e)
              /\ rpc' = "retry_failed"
              /\ UNCHANGED <<newconn, connState>>
    /\ UNCHANGED <<shared, registry, closes, rconn, err, attempt, delays, frame, pool, decoded, msgs,
                   sent, readerExit, dispatch, closers, callers>>

\* dl.conn = conn; retry.Do returns nil, reconnect and handleReadError true
retryable_Store ==
    /\ ~Dead /\ rpc = "retryable_store"
    /\ conn' = newconn
    /\ newconn' = 0
    /\ attempt' = 0 /\ dials' = 0 /\ delays' = <<>> /\ err' = NoErr
    /\ rpc' = "processMessages"
    /\ UNCHANGED <<isLiving, manualClose, mu, registry, transport, rconn, derr, frame, pool, decoded,
                   msgs, sent, readerExit, dispatch, closers, callers>>

\* retry.RetryIf as passed by reconnect
RetryIf(e) ==
    ~IsCloseError(e, {ClosePolicyViolation, CloseInvalidFramePayloadData})

\* retry.Do after a failed call with n = k and Attempts(attempts): TRUE when
\* it gives up (RetryIf refuses, or this was the last attempt).
GivesUp(e, k, attempts) ==
    \/ ~RetryIf(e)
    \/ k >= attempts - 1

\* retry.Do's handling of a failed attempt: give up, or sleep the backoff
\* delay and call retryable again.
retry_Failed ==
    /\ ~Dead /\ rpc = "retry_failed"
    /\ derr' = NoErr
    /\ IF GivesUp(derr, attempt, defaultMaxRetries)
       THEN Return /\ UNCHANGED <<attempt, delays>>
       ELSE /\ delays' = Append(delays, BackOffDelay(attempt))
            /\ attempt' = attempt + 1
            /\ rpc' = "retryable"
            /\ UNCHANGED <<exit, crashSite>>
    /\ UNCHANGED <<shared, registry, transport, rconn, err, newconn, dials, frame, pool, decoded, msgs,
                   sent, cleanups, ended, dispatch, closers, callers>>

\* ----------------------------------------------------------- cleanup
\* Where the goroutine of Start2 ends after the deferred cleanup.
AfterCleanup == IF exit = "panic" THEN "crashed" ELSE "returned"

\* defer dl.cleanup(): if dl.conn != nil
cleanup ==
    /\ ~Dead /\ rpc = "cleanup"
    /\ cleanups' = cleanups + 1
    /\ rpc' = IF conn # 0 THEN "cleanup_close" ELSE AfterCleanup
    /\ UNCHANGED <<shared, registry, transport, readerLocals, exit, crashSite, ended,
                   dispatch, closers, callers>>

\* dl.conn.Close()
cleanup_Close ==
    /\ ~Dead /\ rpc = "cleanup_close"
    /\ IF conn = 0
       THEN /\ crashSite' = IF crashSite = "none" THEN "cleanup" ELSE crashSite
            /\ rpc' = "crashed"
            /\ UNCHANGED transport
       ELSE /\ HardClose(conn)
            /\ rpc' = AfterCleanup
            /\ crashSite' = crashSite
    /\ UNCHANGED <<shared, registry, readerLocals, exit, cleanups, ended, dispatch,
                   closers, callers>>

\* ------------------------------------------------------------- Close
\* dl.setLiveStatus(false)
Close_setLiveStatus(k) ==
    /\ ~Dead /\ cpc[k] = "idle"
    /\ setLiveStatus(FALSE)
    /\ cpc' = [cpc EXCEPT ![k] = "manualClose"]
    /\ UNCHANGED <<conn, manualClose, mu, registry, transport, rpc, readerLocals,
                   readerExit, dispatch, cconn, gpc, callers>>

\* dl.manualClose = true
Close_manualClose(k) ==
    /\ ~Dead /\ cpc[k] = "manualClose"
    /\ manualClose' = TRUE
    /\ cpc' = [cpc EXCEPT ![k] = "lock"]
    /\ UNCHANGED <<conn, isLiving, mu, registry, transport, rpc, readerLocals,
                   readerExit, dispatch, cconn, gpc, callers>>

\* dl.mu.Lock()
Close_Lock(k) ==
    /\ ~Dead /\ cpc[k] = "lock"
    /\ mu = "free"
    /\ mu' = k
    /\ cpc' = [cpc EXCEPT ![k] = "check"]
    /\ UNCHANGED <<conn, isLiving, manualClose, registry, transport, rpc, readerLocals,
                   readerExit, dispatch, cconn, gpc, callers>>

\* if dl.conn == nil { return }, with the deferred Unlock
Close_Check(k) ==
    /\ ~Dead /\ cpc[k] = "check"
    /\ IF conn = 0
       THEN mu' = "free" /\ cpc' = [cpc EXCEPT ![k] = "done"]
       ELSE mu' = mu /\ cpc' = [cpc EXCEPT ![k] = "capture"]
    /\ UNCHANGED <<conn, isLiving, manualClose, registry, transport, rpc, readerLocals,
                   readerExit, dispatch, cconn, gpc, callers>>

\* conn := dl.conn
Close_Capture(k) ==
    /\ ~Dead /\ cpc[k] = "capture"
    /\ cconn' = [cconn EXCEPT ![k] = conn]
    /\ cpc' = [cpc EXCEPT ![k] = "clear"]
    /\ UNCHANGED <<shared, registry, transport, rpc, readerLocals, readerExit,
                   dispatch, gpc, callers>>

\* dl.conn = nil, and the go statement
Close_Clear(k) ==
    /\ ~Dead /\ cpc[k] = "clear"
    /\ conn' = 0
    /\ gpc' = [gpc EXCEPT ![k] = "write"]
    /\ cpc' = [cpc EXCEPT ![k] = "wait"]
    /\ UNCHANGED <<isLiving, manualClose, mu, registry, transport, rpc, readerLocals,
                   readerExit, dispatch, cconn, callers>>

\* The goroutine: conn.WriteControl(websocket.CloseMessage, ...) and the sleep
Close_WriteControl(k) ==
    /\ ~Dead /\ gpc[k] = "write"
    /\ IF cconn[k] = 0
       THEN /\ gpc' = [gpc EXCEPT ![k] = "crashed"]
            /\ crashSite' = IF crashSite = "none" THEN "Close" ELSE crashSite
       ELSE /\ gpc' = [gpc EXCEPT ![k] = "close"]
            /\ crashSite' = crashSite
    /\ UNCHANGED <<shared, registry, transport, rpc, readerLocals, exit, cleanups,
                   ended, dispatch, cpc, cconn, callers>>

\* The goroutine: conn.Close(), then the deferred close(done)
Close_HardClose(k) ==
    /\ ~Dead /\ gpc[k] = "close"
    /\ HardClose(cconn[k])
    /\ gpc' = [gpc EXCEPT ![k] = "done"]
    /\ UNCHANGED <<shared, registry, rpc, readerLocals, readerExit, dispatch, cpc,
                   cconn, callers>>

\* select: <-done, or <-time.After(3 * time.Second); then the deferred Unlock
Close_Wait(k) ==
    /\ ~Dead /\ cpc[k] = "wait"
    /\ \E timeout \in BOOLEAN : IF timeout THEN TRUE ELSE gpc[k] = "done"
    /\ mu' = "free"
    /\ cpc' = [cpc EXCEPT ![k] = "done"]
    /\ UNCHANGED <<conn, isLiving, manualClose, registry, transport, rpc, readerLocals,
                   readerExit, dispatch, cconn, gpc, callers>>

\* --------------------------------------------- Subscribe, Unsubscribe
\* append's capacity when the slice is full
GrownCap(c) == IF c = 0 THEN 1 ELSE 2 * c

\* The array and header append(h, id) produces: in place when there is room,
\* else a copy in a new array.
AppendInPlace(h) == h.len < h.cap

\* id := utils.GenerateUniqueID(), and the load of dl.eventHandlers
Subscribe(u) ==
    /\ ~Dead /\ upc[u] = "idle"
    /\ nextId < MaxSubs
    /\ nextId' = nextId + 1
    /\ uarg' = [uarg EXCEPT ![u] = nextId + 1]
    /\ uhdr' = [uhdr EXCEPT ![u] = eventHandlers]
    /\ upc' = [upc EXCEPT ![u] = "sub_append"]
    /\ UNCHANGED <<shared, registry, transport, rpc, readerLocals, readerExit,
                   dispatch, closers, uidx, unsubs, expected>>

\* append(dl.eventHandlers, EventHandler{...})
Subscribe_Append(u) ==
    /\ ~Dead /\ upc[u] = "sub_append"
    /\ LET h == uhdr[u]
           id == uarg[u]
       IN  IF AppendInPlace(h)
           THEN /\ heap' = [heap EXCEPT ![h.ptr][h.len + 1] = id]
                /\ uhdr' = [uhdr EXCEPT ![u] = [h EXCEPT !.len = @ + 1]]
           ELSE /\ heap' = Append(heap,
                                  [i \in 1..GrownCap(h.cap) |->
                                     IF i <= h.len THEN heap[h.ptr][i]
                                     ELSE IF i = h.len + 1 THEN id ELSE 0])
                /\ uhdr' = [uhdr EXCEPT ![u] =
                              [ptr |-> Len(heap) + 1, len |-> h.len + 1,
                               cap |-> GrownCap(h.cap)]]
    /\ upc' = [upc EXCEPT ![u] = "sub_store"]
    /\ UNCHANGED <<shared, eventHandlers, transport, rpc, readerLocals, readerExit,
                   dispatch, closers, uarg, uidx, nextId, unsubs, expected>>

\* dl.eventHandlers = <the result of append>
Subscribe_Store(u) ==
    /\ ~Dead /\ upc[u] = "sub_store"
    /\ eventHandlers' = uhdr[u]
    /\ expected' = Append(expected, uarg[u])
    /\ upc' = [upc EXCEPT ![u] = "idle"]
    /\ uarg' = [uarg EXCEPT ![u] = 0]
    /\ uhdr' = [uhdr EXCEPT ![u] = NilHeader]
    /\ UNCHANGED <<shared, heap, transport, rpc, readerLocals, readerExit, dispatch,
                   closers, uidx, nextId, unsubs>>

\* The index of the first entry with the id, 0 if there is none.
IndexOf(id) ==
    IF \E i \in 1..eventHandlers.len : Handlers[i] = id
    THEN CHOOSE i \in 1..eventHandlers.len :
           Handlers[i] = id /\ \A j \in 1..(i - 1) : Handlers[j] # id
    ELSE 0

\* Ids Subscribe has returned to its caller.
Returned == {i \in 1..nextId : \A u \in Callers : ~(upc[u] \in {"sub_append", "sub_store"} /\ uarg[u] = i)}

\* for i, h := range dl.eventHandlers { if h.ID == id
Unsubscribe(u) ==
    /\ ~Dead /\ upc[u] = "idle"
    /\ unsubs < MaxUnsubs
    /\ unsubs' = unsubs + 1
    /\ \E id \in Returned :
         IF IndexOf(id) = 0
         THEN UNCHANGED <<upc, uarg, uidx, stable>>
         ELSE /\ upc' = [upc EXCEPT ![u] = "unsub_shift"]
              /\ uarg' = [uarg EXCEPT ![u] = id]
              /\ uidx' = [uidx EXCEPT ![u] = IndexOf(id)]
              /\ stable' = stable \ {id}
    /\ UNCHANGED <<shared, registry, transport, rpc, readerLocals, readerExit, it,
                   calls, closers, uhdr, nextId, expected>>

\* append(dl.eventHandlers[:i], dl.eventHandlers[i+1:]...): the slice
\* expressions are bounds-checked against the header as it is now, and the
\* tail is moved down inside the backing array.
Unsubscribe_Shift(u) ==
    /\ ~Dead /\ upc[u] = "unsub_shift"
    /\ LET h == eventHandlers
           i == uidx[u]
       IN  IF i - 1 > h.cap \/ i > h.len
           THEN /\ upc' = [upc EXCEPT ![u] = "crashed"]
                /\ crashSite' = IF crashSite = "none" THEN "Unsubscribe" ELSE crashSite
                /\ UNCHANGED <<heap, uhdr>>
           ELSE /\ heap' = [heap EXCEPT ![h.ptr] =
                              [j \in 1..h.cap |->
                                 IF j >= i /\ j < h.len THEN heap[h.ptr][j + 1]
                                 ELSE heap[h.ptr][j]]]
                /\ uhdr' = [uhdr EXCEPT ![u] = [h EXCEPT !.len = @ - 1]]
                /\ upc' = [upc EXCEPT ![u] = "unsub_store"]
                /\ crashSite' = crashSite
    /\ UNCHANGED <<shared, eventHandlers, transport, rpc, readerLocals, exit, cleanups,
                   ended, dispatch, closers, uarg, uidx, nextId, unsubs, expected>>

\* The sequence without its entries equal to id.
RECURSIVE Without(_, _)
Without(s, id) ==
    IF s = <<>> THEN <<>>
    ELSE IF Head(s) = id THEN Without(Tail(s), id)
    ELSE <<Head(s)>> \o Without(Tail(s), id)

\* dl.eventHandlers = <the result of append>
Unsubscribe_Store(u) ==
    /\ ~Dead /\ upc[u] = "unsub_store"
    /\ eventHandlers' = uhdr[u]
    /\ expected' = Without(expected, uarg[u])
    /\ upc' = [upc EXCEPT ![u] = "idle"]
    /\ uarg' = [uarg EXCEPT ![u] = 0]
    /\ uidx' = [uidx EXCEPT ![u] = 0]
    /\ uhdr' = [uhdr EXCEPT ![u] = NilHeader]
    /\ UNCHANGED <<shared, heap, transport, rpc, readerLocals, readerExit, dispatch,
                   closers, nextId, unsubs>>

\* ------------------------------------------------------ specifications
Reader ==
    \/ Start2_initialize
    \/ startWebSocket_Dial
    \/ startWebSocket_Store
    \/ processMessages_Loop
    \/ processMessages_Read
    \/ processMessages_ReadFrame
    \/ processMessages_ReadError
    \/ sendAck
    \/ sendAck_Write
    \/ handleSingleMessage
    \/ emitEvent
    \/ handleSingleMessage_Control
    \/ handleReadError
    \/ handleReadError_Sleep
    \/ reconnect
    \/ reconnect_Check
    \/ reconnect_WriteControl
    \/ reconnect_Close
    \/ reconnect_Nil
    \/ retryable_Dial
    \/ retryable_Store
    \/ retry_Failed
    \/ cleanup
    \/ cleanup_Close

Close(k) ==
    \/ Close_setLiveStatus(k)
    \/ Close_manualClose(k)
    \/ Close_Lock(k)
    \/ Close_Check(k)
    \/ Close_Capture(k)
    \/ Close_Clear(k)
    \/ Close_WriteControl(k)
    \/ Close_HardClose(k)
    \/ Close_Wait(k)

Registry(u) ==
    \/ Subscribe(u)
    \/ Subscribe_Append(u)
    \/ Subscribe_Store(u)
    \/ Unsubscribe(u)
    \/ Unsubscribe_Shift(u)
    \/ Unsubscribe_Store(u)

\* The session: Start2 in one goroutine, Close() called from others.
Next ==
    \/ Reader
    \/ \E k \in Closers : Close(k)

Spec == Init /\ [][Next]_vars

\* The registry: Start2 dispatching in one goroutine, Subscribe and
\* Unsubscribe called from others (or from inside a callback).
NextRegistry ==
    \/ Reader
    \/ \E u \in Callers : Registry(u)

SpecRegistry == Init /\ [][NextRegistry]_vars

\* ReadMessage on a transport that has been closed returns an error.
ReadOnClosed ==
    /\ rpc = "reading"
    /\ connState[rconn] # "open"
    /\ processMessages_ReadError

\* The steps of Start2's goroutine that do not wait for the peer: every one
\* but a read on an open transport, which blocks until the peer sends.
ReaderRuns ==
    \/ Start2_initialize
    \/ startWebSocket_Dial
    \/ startWebSocket_Store
    \/ processMessages_Loop
    \/ processMessages_Read
    \/ ReadOnClosed
    \/ sendAck
    \/ sendAck_Write
    \/ handleSingleMessage
    \/ emitEvent
    \/ handleSingleMessage_Control
    \/ handleReadError
    \/ handleReadError_Sleep
    \/ reconnect
    \/ reconnect_Check
    \/ reconnect_WriteControl
    \/ reconnect_Close
    \/ reconnect_Nil
    \/ retryable_Dial
    \/ retryable_Store
    \/ retry_Failed
    \/ cleanup
    \/ cleanup_Close

\* The steps of a Close() call once it has been made.
CloseRuns(k) ==
    \/ Close_manualClose(k)
    \/ Close_Lock(k)
    \/ Close_Check(k)
    \/ Close_Capture(k)
    \/ Close_Clear(k)
    \/ Close_WriteControl(k)
    \/ Close_HardClose(k)
    \/ Close_Wait(k)

\* The Go scheduler runs every goroutine that can run; a dial terminates and
\* a read on a closed transport returns.  Whether Close() is called, and
\* what the peer sends on an open transport, is left to the environment.
Fairness ==
    /\ WF_vars(ReaderRuns)
    /\ \A k \in Closers : WF_vars(CloseRuns(k))

SpecLive == Spec /\ Fairness

\* ------------------------------------------------------------ claims
\* Positions of Start2's goroutine from the deferred cleanup on.
ExitPcs == {"cleanup", "cleanup_close", "returned", "crashed"}

\* Positions of Start2's goroutine between a read error and the end of the
\* reconnect cycle it may start.
ReconnectPcs ==
    {"handleReadError", "sleep", "reconnect", "reconnect_check", "reconnect_write",
     "reconnect_close", "reconnect_nil", "retryable", "retryable_store", "retry_failed"}

\* C1: Close() is safe to call concurrently with Start2: no step of the read
\* loop context (the read, the ACK write, the stale-handle close in
\* reconnect) is performed on a handle Close() has cleared to nil.
C1_CloseNeverCrashesReadLoop ==
    crashSite \notin {"read", "sendAck", "reconnect"}

\* C2: once Close() has set manualClose, before a read error is handled or
\* during a reconnect cycle, no dial succeeds and no handle is stored in the
\* session.
C2_NoConnectionAfterManualClose ==
    [][(manualClose /\ rpc \in ReconnectPcs)
         => /\ (conn' = conn \/ conn' = 0)
            /\ newconn' = newconn]_vars

\* C3: a read error that is a peer close with the normal-closure code never
\* triggers a reconnect: handleReadError returns stop, no dial is made and
\* the read loop exits.
C3_NormalClosureNeverReconnects ==
    err = CloseErr(CloseNormalClosure)
      => /\ rpc \in {"handleReadError"} \cup ExitPcs
         /\ rpc \in ExitPcs => exit = "return"
         /\ dials = 0
         /\ newconn = 0

C3_Witness ==
    /\ err = CloseErr(CloseNormalClosure)
    /\ rpc = "returned"
    /\ ~manualClose

\* The delays of a reconnect cycle are strictly increasing.
StrictlyIncreasing(s) == \A i \in 1..(Len(s) - 1) : s[i] < s[i + 1]

\* C4: an abnormal-termination read error (1006) with manualClose unset
\* starts a reconnect cycle; a cycle makes at most defaultMaxRetries dials,
\* the delay before each successive dial is strictly greater than the one
\* before, and after the last failed dial the cycle gives up and the read
\* loop stops without another dial.
C4_BoundedBackoffReconnect ==
    [][/\ dials' <= defaultMaxRetries
       /\ StrictlyIncreasing(delays')
       /\ Len(delays') = attempt'
       /\ (rpc = "handleReadError" /\ err = CloseErr(CloseAbnormalClosure)
             /\ ~manualClose /\ rpc' # rpc)
            => rpc' = "reconnect"
       /\ (rpc = "retry_failed" /\ dials = defaultMaxRetries /\ rpc' # rpc)
            => (rpc' = "cleanup" /\ exit' = "return")
       /\ rpc \in ExitPcs => (rpc' \in ExitPcs /\ dials' = dials)]_vars

C4_Witness ==
    /\ err = CloseErr(CloseAbnormalClosure)
    /\ rpc = "returned"
    /\ ~manualClose
    /\ dials = defaultMaxRetries
    /\ delays = <<100, 200, 400, 800>>

\* The ACK the session owes for a frame.
OwedAck(f) == [logID |-> f.logID, payloadType |-> "ack", payload |-> f.payload.internalExt]

\* The frame whose ACK decision has just been carried out.
AckSettled == rpc = "handleSingleMessage" /\ frame # NoFrame

\* C5 (as claimed): every gzip "msg" frame whose Response has needAck=true
\* makes the session emit exactly one ACK frame with the Response's
\* internalExt as payload and the frame's logID; needAck=false, none.
C5_ExactlyOneAck ==
    AckSettled => sent = IF frame.payload.needAck THEN <<OwedAck(frame)>> ELSE <<>>

\* C5 (amended): the session emits at most one ACK per frame and only for
\* needAck=true, with the Response's internalExt as payload and the frame's
\* logID; it emits exactly one unless Close() has cleared the transport handle
\* before the ACK is written, in which case it emits none.
C5_OneAckUnlessClosed ==
    /\ Len(sent) <= 1
    /\ sent # <<>> => (frame # NoFrame /\ frame.payload.needAck /\ sent = <<OwedAck(frame)>>)
    /\ (AckSettled /\ frame.payload.needAck /\ sent = <<>>) => (conn = 0 /\ manualClose)
    /\ (frame # NoFrame /\ crashSite = "sendAck") => (conn = 0 /\ manualClose)

C5_Witness ==
    /\ AckSettled
    /\ frame.payload.needAck
    /\ sent = <<[logID |-> 2, payloadType |-> "ack", payload |-> "Y"]>>

\* C6: once a WebcastControlMessage with status 3 has been handled, isLiving
\* is false and the read loop exits at its next loop-condition check: no
\* further frame is read, no transport error is needed and no reconnect is
\* attempted.
C6_StreamEndStopsLoop ==
    ended
      => /\ ~isLiving
         /\ rpc \in {"handleSingleMessage", "emitEvent", "control", "processMessages"}
                      \cup ExitPcs
         /\ rpc \in ExitPcs => exit = "return"
         /\ err = NoErr
         /\ dials = 0

C6_Witness ==
    /\ ended
    /\ rpc = "returned"
    /\ ~manualClose
    /\ \A k \in Closers : cpc[k] = "idle"

\* C7: Close() is idempotent: only the first call that finds an open handle
\* closes the transport, every later call (also one made after cleanup has
\* ended the session) is a no-op, so no connection is ever closed twice.
C7_NoConnectionClosedTwice ==
    \A c \in Conns : closes[c] <= 1

\* C10: whenever Start2 has returned, cleanup has run exactly once and no
\* connection the session opened is left open: each has been closed by
\* cleanup, by reconnect or by a Close() call (a call still in flight is
\* given the time to close the connection it captured).
InFlightClose(c) ==
    \E k \in Closers : cconn[k] = c /\ cpc[k] \in {"clear", "wait", "done"} /\ gpc[k] # "done"

C10_ReturnLeavesNothingOpen ==
    rpc = "returned"
      => /\ cleanups = 1
         /\ \A c \in Conns : connState[c] = "open" => InFlightClose(c)

\* Number of entries of s equal to x.
RECURSIVE Count(_, _)
Count(s, x) ==
    IF s = <<>> THEN 0
    ELSE (IF Head(s) = x THEN 1 ELSE 0) + Count(Tail(s), x)

\* C8: when Subscribe or Unsubscribe runs while emitEvent iterates for one
\* message, the dispatch does not crash and every handler registered
\* throughout the dispatch, and not the one added or removed, is invoked
\* exactly once.
C8_DispatchSkipsAndDuplicatesNothing ==
    /\ crashSite # "emitEvent"
    /\ rpc = "control" => \A id \in stable : Count(calls, id) = 1

\* C9: for every sequence of Subscribe and Unsubscribe calls interleaved with
\* dispatches, also overlapping ones, the registry does not crash and the
\* handler list holds exactly the ids subscribed and not later unsubscribed,
\* each once, in subscription order.
C9_MembershipIsNetEffect ==
    /\ crashSite # "Unsubscribe"
    /\ (\A u \in Callers : upc[u] = "idle") => Handlers = expected

\* C11: every buffer decompressGzip has put back into the pool has zero
\* logical length, whatever it held and whether decompression succeeded or
\* failed, and the buffer is back in the pool on every return of
\* decompressGzip.
C11_PooledBuffersAreEmpty ==
    /\ \A i \in 1..Len(pool) : pool[i] = 0
    /\ decoded \in {"gzip", "Response", "ok"} => pool # <<>>

C11_Witness ==
    /\ decoded = "gzip"
    /\ pool = <<0>>

\* C12: a read error that is not a websocket CloseError (a network-level
\* error without a close code), with manualClose unset, starts a reconnect
\* cycle instead of stopping the read loop.
C12_NetworkErrorReconnects ==
    [][(rpc = "handleReadError" /\ err = NetErr /\ ~manualClose /\ rpc' # rpc)
         => rpc' = "reconnect"]_vars

\* The close codes the retry condition of reconnect names as not retryable.
UnrecoverableCodes == {ClosePolicyViolation, CloseInvalidFramePayloadData}

\* C13: in a reconnect cycle a dial failure with close code 1008 or 1007
\* ends the cycle at once, with no further dial even when attempts remain;
\* every other dial failure is retried until the maximum is reached.
C13_UnrecoverableDialErrorAborts ==
    [][(rpc = "retry_failed" /\ rpc' # rpc)
         => IF derr.kind = "close" /\ derr.code \in UnrecoverableCodes
            THEN rpc' = "cleanup" /\ exit' = "return"
            ELSE (attempt < defaultMaxRetries - 1) => rpc' = "retryable"]_vars

\* C14: every write to dl.conn, dl.isLiving and dl.manualClose is made by a
\* goroutine that holds dl.mu.
C14_WritesHoldMutex ==
    [][(conn' # conn \/ isLiving' # isLiving \/ manualClose' # manualClose)
         => \E k \in Closers : mu = k /\ cpc'[k] # cpc[k]]_vars

\* C15: the transport handle is non-nil only while the last connect or
\* reconnect succeeded and no close or read error has been observed since:
\* after a read error has stopped the loop, and after cleanup has closed the
\* transport, the handle is nil.
C15_HandleNilAfterStop ==
    /\ (rpc = "cleanup" /\ exit = "return" /\ err # NoErr) => conn = 0
    /\ rpc = "returned" => conn = 0

\* C16: a subscriber callback that panics during a dispatch does not stop
\* the dispatch and does not propagate into the read loop: with handlers
\* still to be called, the next step of emitEvent stays in the dispatch.
C16_HandlerFailureIsContained ==
    [][(rpc = "emitEvent" /\ it.idx < it.len /\ heap[it.ptr][it.idx + 1] # 0)
         => /\ rpc' = "emitEvent"
            /\ crashSite' # "Handler"]_vars

\* C17: every dial failure of startWebSocket, also one for which the peer
\* supplied no response, makes it return an error without a crash and with
\* the handle left nil; the handle is stored only after a successful dial.
C17_DialFailureReturnsError ==
    [][(rpc = "startWebSocket" /\ rpc' # rpc)
         => /\ exit' # "panic"
            /\ conn' = 0
            /\ rpc' = "cleanup" => (exit' = "return" /\ newconn' = 0)
            /\ rpc' # "cleanup" => (rpc' = "startWebSocket_store" /\ newconn' # 0)]_vars

\* The outcomes of decoding that are failures.
DecodeFailures == {"PushFrame", "gzip", "Response"}

\* C18: a frame that fails to decode (PushFrame, gzip payload or Response)
\* is dropped as a whole: no ACK, no dispatch, isLiving and the handle are
\* left as they are, and the loop goes on to its next read.
C18_UndecodableFrameIsSkipped ==
    [][/\ (rpc = "reading" /\ decoded' \in DecodeFailures)
            => /\ rpc' = "processMessages"
               /\ sent' = <<>> /\ msgs' = <<>> /\ frame' = NoFrame
               /\ calls' = calls /\ it' = it
               /\ isLiving' = isLiving /\ conn' = conn
               /\ exit' = exit /\ crashSite' = crashSite
       /\ (rpc = "processMessages" /\ decoded \in DecodeFailures /\ isLiving
             /\ rpc' # rpc)
            => rpc' = "read"]_vars

C18_Witness ==
    /\ decoded = "Response"
    /\ rpc = "processMessages"
    /\ isLiving /\ conn # 0

\* Start2 is past its connect and has not left its body.
Running ==
    rpc \in {"processMessages", "read", "reading", "sendAck", "sendAck_write",
             "handleSingleMessage", "emitEvent", "control"} \cup ReconnectPcs

\* C19: once Close() has been called while Start2 is running (in a read, in
\* the processing of a frame or in a reconnect cycle), the read loop stops
\* and Start2 returns, eventually.
C19_CloseEventuallyStopsStart2 ==
    ((\E k \in Closers : cpc[k] # "idle") /\ Running) ~> (rpc = "returned")

\* C20: at every moment at most one connection opened by the session is
\* open.
C20_AtMostOneOpenConnection ==
    Cardinality({c \in Conns : connState[c] = "open"}) <= 1

=============================================================================
